---- MODULE Spec2Model ----
(***************************************************************************)
(* A model of the statechart interpreter pyss.simulator.Simulator and of   *)
(* the helpers of sismic.interpreter.helpers.                              *)
(*                                                                         *)
(* The state of the model is the state of one Simulator object (its        *)
(* configuration, its event queue, the memory of the history states of its *)
(* state machine), the position of one generator obtained from __iter__,   *)
(* and a record of the last call (its kind, what it returned, what the     *)
(* evaluator answered).  The state machine itself is immutable; it is      *)
(* drawn in Init from a small family of well-formed machines.              *)
(***************************************************************************)
EXTENDS Integers, Sequences, FiniteSets, TLC

VARIABLES
    sm,                      \* name of the interpreted state machine (self._sm)
    evaluator,               \* self._evaluator : "total" when execute_action
                             \* always returns, "raising" when it may raise
    configuration,           \* self._configuration : set of active state names
    events,                  \* self._events : the event queue
    memory,                  \* HistoryState.memory of every history state
    iterPc,                  \* position of the generator returned by __iter__
    consecutive_null_steps,  \* local variable of that generator
    lastCall,                \* the last operation that was called
    lastSteps,               \* the list of Step it returned (or yielded)
    lastEval,                \* what evaluate_condition answered during it
    lastError,               \* the exception the last call raised, if any
    lastLog,                 \* what the last call did, in order: the calls made,
                             \* the steps applied and the actions handed to the
                             \* evaluator, each with the configuration of the time
    exitedActive,            \* per history state: descendants of its parent that
                             \* were active when a transition last exited the parent
    quietRuns,               \* consecutive iteration macrosteps made of an
                             \* eventless transition that left the configuration as is
    traced,                  \* whether log_trace has wrapped the entry point
    trace,                   \* the list log_trace returned
    bgPc,                    \* position of the thread of run_in_background
    bgStep,                  \* the Step that thread is applying, if any
    bgLocal,                 \* the set that thread is about to store in
                             \* self._configuration
    bgStopped,               \* whether thread.stop() was called
    bgStopConf,              \* the configuration thread.stop() found
    bgLateExits              \* the states of bgStopConf whose exit action ran
                             \* after thread.stop()

\* The variables of log_trace and of run_in_background.
traceVars == <<traced, trace>>
threadVars == <<bgPc, bgStep, bgLocal, bgStopped, bgStopConf, bgLateExits>>

vars == <<sm, evaluator, configuration, events, memory, iterPc,
          consecutive_null_steps, lastCall, lastSteps, lastEval, lastError,
          lastLog, exitedActive, quietRuns, traced, trace, bgPc, bgStep,
          bgLocal, bgStopped, bgStopConf, bgLateExits>>

-----------------------------------------------------------------------------
(* Bounds of the model *)

MaxQueue == 2        \* longest event queue explored
MaxStab == 8         \* most stabilization steps followed in one call
MaxQuiet == 43       \* most consecutive quiet macrosteps followed
MaxTrace == 3        \* longest trace of log_trace explored

(* Constant of the program *)
MaxNullSteps == 42   \* threshold of the infinite-run guard

None == "None"

Range(f) == {f[i] : i \in DOMAIN f}

-----------------------------------------------------------------------------
(* The state machines.  A machine lists its states in declaration order,   *)
(* gives the kind and the parent of each (None for a top-level state), the *)
(* initial child of each compound state, the deep history states, the      *)
(* memory a history state is constructed with, its transitions in          *)
(* declaration order, and its initial state; then the states that have an  *)
(* entry action, those that have an exit action, the transitions that have *)
(* an action, and whether the machine itself has an entry action.          *)

Tr(from, to, ev, cond) ==
    [from_state |-> from, to_state |-> to, event |-> ev, condition |-> cond]

\* Compound C with a shallow history state H.
ShallowModel ==
    [order |-> <<"C", "X0", "X", "H", "Out", "F">>,
     kind |-> ("C" :> "compound" @@ "X0" :> "basic" @@ "X" :> "basic"
               @@ "H" :> "history" @@ "Out" :> "basic" @@ "F" :> "final"),
     parent |-> ("C" :> None @@ "X0" :> "C" @@ "X" :> "C" @@ "H" :> "C"
                 @@ "Out" :> None @@ "F" :> None),
     initial |-> ("C" :> "X0"),
     deep |-> {},
     memory |-> ("H" :> <<>>),
     transitions |-> <<Tr("X0", "X", "a", FALSE),
                       Tr("C", "Out", "b", FALSE),
                       Tr("X", "Out", "b", FALSE),
                       Tr("Out", "H", "a", FALSE),
                       Tr("Out", "F", "b", FALSE)>>,
     sm_initial |-> "C",
     alphabet |-> {"a", "b"},
     on_entry |-> {"C", "X"},
     on_exit |-> {"C", "X"},
     actions |-> {3},
     sm_on_entry |-> TRUE]

\* Compound D with a deep history state DH and a nested compound A.
DeepModel ==
    [order |-> <<"D", "D0", "A", "AB", "AC", "DH", "Out">>,
     kind |-> ("D" :> "compound" @@ "D0" :> "basic" @@ "A" :> "compound"
               @@ "AB" :> "basic" @@ "AC" :> "basic" @@ "DH" :> "history"
               @@ "Out" :> "basic"),
     parent |-> ("D" :> None @@ "D0" :> "D" @@ "A" :> "D" @@ "AB" :> "A"
                 @@ "AC" :> "A" @@ "DH" :> "D" @@ "Out" :> None),
     initial |-> ("D" :> "D0" @@ "A" :> "AC"),
     deep |-> {"DH"},
     memory |-> ("DH" :> <<"D0">>),
     transitions |-> <<Tr("D0", "AB", "a", FALSE),
                       Tr("AB", "Out", "b", FALSE),
                       Tr("Out", "DH", "a", FALSE)>>,
     sm_initial |-> "D",
     alphabet |-> {"a", "b"},
     on_entry |-> {"A", "AB"},
     on_exit |-> {"AB", "A", "D"},
     actions |-> {2},
     sm_on_entry |-> FALSE]

\* Orthogonal P with two compound regions.
OrthModel ==
    [order |-> <<"S0", "P", "R1", "R1a", "R1b", "R2", "R2a", "R2f", "F">>,
     kind |-> ("S0" :> "basic" @@ "P" :> "orthogonal" @@ "R1" :> "compound"
               @@ "R1a" :> "basic" @@ "R1b" :> "basic" @@ "R2" :> "compound"
               @@ "R2a" :> "basic" @@ "R2f" :> "final" @@ "F" :> "final"),
     parent |-> ("S0" :> None @@ "P" :> None @@ "R1" :> "P" @@ "R1a" :> "R1"
                 @@ "R1b" :> "R1" @@ "R2" :> "P" @@ "R2a" :> "R2"
                 @@ "R2f" :> "R2" @@ "F" :> None),
     initial |-> ("R1" :> "R1a" @@ "R2" :> "R2a"),
     deep |-> {},
     memory |-> <<>>,
     transitions |-> <<Tr("S0", "P", None, TRUE),
                       Tr("S0", "P", "a", FALSE),
                       Tr("P", "S0", "b", FALSE),
                       Tr("R1a", "R1b", "b", FALSE),
                       Tr("R2a", "R2f", "a", FALSE),
                       Tr("R1a", "R1b", "a", FALSE),
                       Tr("R1b", "F", "a", FALSE)>>,
     sm_initial |-> "S0",
     alphabet |-> {"a", "b"},
     on_entry |-> {"P"},
     on_exit |-> {"R1b"},
     actions |-> {},
     sm_on_entry |-> FALSE]

\* A basic state with an eventless internal transition that is always enabled.
LoopModel ==
    [order |-> <<"S", "F">>,
     kind |-> ("S" :> "basic" @@ "F" :> "final"),
     parent |-> ("S" :> None @@ "F" :> None),
     initial |-> <<>>,
     deep |-> {},
     memory |-> <<>>,
     transitions |-> <<Tr("S", None, None, FALSE),
                       Tr("S", "F", "a", FALSE)>>,
     sm_initial |-> "S",
     alphabet |-> {"a"},
     on_entry |-> {},
     on_exit |-> {},
     actions |-> {1},
     sm_on_entry |-> FALSE]

\* Orthogonal P whose region R1 is the target of a transition from outside
\* P and the source of a transition to its own child.
RegionModel ==
    [order |-> <<"S0", "P", "R1", "R1a", "R1b", "R2", "R2a">>,
     kind |-> ("S0" :> "basic" @@ "P" :> "orthogonal" @@ "R1" :> "compound"
               @@ "R1a" :> "basic" @@ "R1b" :> "basic" @@ "R2" :> "compound"
               @@ "R2a" :> "basic"),
     parent |-> ("S0" :> None @@ "P" :> None @@ "R1" :> "P" @@ "R1a" :> "R1"
                 @@ "R1b" :> "R1" @@ "R2" :> "P" @@ "R2a" :> "R2"),
     initial |-> ("R1" :> "R1a" @@ "R2" :> "R2a"),
     deep |-> {},
     memory |-> <<>>,
     transitions |-> <<Tr("S0", "R1b", "a", FALSE),
                       Tr("R1", "R1a", "b", FALSE),
                       Tr("S0", "P", "b", FALSE)>>,
     sm_initial |-> "S0",
     alphabet |-> {"a", "b"},
     on_entry |-> {"R1"},
     on_exit |-> {},
     actions |-> {},
     sm_on_entry |-> FALSE]

\* Compound C whose initial child is its own history state, with nothing
\* remembered yet.
SelfHistoryModel ==
    [order |-> <<"C", "H", "X">>,
     kind |-> ("C" :> "compound" @@ "H" :> "history" @@ "X" :> "basic"),
     parent |-> ("C" :> None @@ "H" :> "C" @@ "X" :> "C"),
     initial |-> ("C" :> "H"),
     deep |-> {},
     memory |-> ("H" :> <<>>),
     transitions |-> <<Tr("X", "C", "a", FALSE)>>,
     sm_initial |-> "C",
     alphabet |-> {"a"},
     on_entry |-> {},
     on_exit |-> {},
     actions |-> {},
     sm_on_entry |-> FALSE]

ModelNames == {"shallow", "deep", "orth", "loop", "region", "selfhist"}

Models == [name \in ModelNames |->
             CASE name = "shallow" -> ShallowModel
               [] name = "deep" -> DeepModel
               [] name = "orth" -> OrthModel
               [] name = "loop" -> LoopModel
               [] name = "region" -> RegionModel
               [] name = "selfhist" -> SelfHistoryModel]

SM == Models[sm]

States == Range(SM.order)
Transitions == SM.transitions
KindOf(s) == SM.kind[s]
HistoryStates == {s \in States : KindOf(s) = "history"}
Guarded == {i \in DOMAIN Transitions : Transitions[i].condition}

-----------------------------------------------------------------------------
(* Hierarchy queries of the state machine *)

Parent(s) == SM.parent[s]

Children(s) == SelectSeq(SM.order, LAMBDA c : Parent(c) = s)

RECURSIVE AncestorsFor(_)
AncestorsFor(s) ==
    IF Parent(s) = None THEN <<>> ELSE <<Parent(s)>> \o AncestorsFor(Parent(s))

DepthOf(s) == Len(AncestorsFor(s)) + 1

DescendantsFor(s) == {d \in States : s \in Range(AncestorsFor(d))}

LeastCommonAncestor(s1, s2) ==
    LET common == SelectSeq(AncestorsFor(s1),
                            LAMBDA a : a \in Range(AncestorsFor(s2)))
    IN  IF common = <<>> THEN None ELSE Head(common)

LeafFor(conf) == {s \in conf : DescendantsFor(s) \cap conf = {}}

-----------------------------------------------------------------------------
(* Steps *)

\* Step.__init__ ; transition is the index of the transition, 0 for None
Step(event, transition, entered_states, exited_states) ==
    [event |-> event, transition |-> transition,
     entered_states |-> entered_states, exited_states |-> exited_states]

\* The orders in which list(a_set) can enumerate a set.
Orderings(S) ==
    {q \in [1..Cardinality(S) -> S] : \A x \in S : \E i \in DOMAIN q : q[i] = x}

\* sorted(..., key=depth_of) : a stable sort, shallowest first
RECURSIVE SortByDepth(_)
SortByDepth(seq) ==
    IF seq = <<>> THEN <<>>
    ELSE LET sorted == SortByDepth(SubSeq(seq, 1, Len(seq) - 1))
             x == seq[Len(seq)]
             p == Cardinality({i \in DOMAIN sorted : DepthOf(sorted[i]) <= DepthOf(x)})
         IN  SubSeq(sorted, 1, p) \o <<x>> \o SubSeq(sorted, p + 1, Len(sorted))

\* The transitions the loop of _actionable_transitions appends, in
\* declaration order; g is what evaluate_condition answers.
ActionableInOrder(conf, event, g) ==
    SelectSeq([i \in DOMAIN Transitions |-> i],
              LAMBDA i : /\ Transitions[i].event = event
                         /\ Transitions[i].from_state \in conf
                         /\ (~Transitions[i].condition \/ g[i]))

\* The list left in declaration order, as if the sort were missing.
NotSorted(seq) == seq

\* sorted(transitions, key=depth_of(from_state), reverse=True) : a stable
\* sort, deepest first (reverse=True keeps the order of equal keys)
RECURSIVE SortDeepestFirst(_)
SortDeepestFirst(seq) ==
    IF seq = <<>> THEN <<>>
    ELSE LET sorted == SortDeepestFirst(SubSeq(seq, 1, Len(seq) - 1))
             x == seq[Len(seq)]
             d(i) == DepthOf(Transitions[i].from_state)
             p == Cardinality({k \in DOMAIN sorted : d(sorted[k]) >= d(x)})
         IN  SubSeq(sorted, 1, p) \o <<x>> \o SubSeq(sorted, p + 1, Len(sorted))

ActionableTransitions(conf, event, g) ==
    SortDeepestFirst(ActionableInOrder(conf, event, g))

\* The exited list: the source, then its ancestors below the LCA.
ExitedStates(from, lca) ==
    LET anc == AncestorsFor(from)
        stop == {i \in DOMAIN anc : anc[i] = lca}
        n == IF stop = {} THEN Len(anc)
             ELSE (CHOOSE i \in stop : \A j \in stop : i <= j) - 1
    IN  <<from>> \o SubSeq(anc, 1, n)

\* As EnteredStates, but the target comes first and the outermost last.
EnteredStatesInnerFirst(to, lca) == ExitedStates(to, lca)

\* The entered list: the ancestors of the target below the LCA, outermost
\* first, then the target.
EnteredStates(to, lca) ==
    LET anc == AncestorsFor(to)
        stop == {i \in DOMAIN anc : anc[i] = lca}
        n == IF stop = {} THEN Len(anc)
             ELSE (CHOOSE i \in stop : \A j \in stop : i <= j) - 1
    IN  [i \in 1..n |-> anc[n + 1 - i]] \o <<to>>

\* _transition_step : a sequence holding the Step, empty for None
TransitionStep(conf, event, g) ==
    LET transitions == ActionableTransitions(conf, event, g)
    IN  IF Len(transitions) = 0 THEN <<>>
        ELSE LET t == transitions[1]
                 transition == Transitions[t]
             IN  IF transition.to_state = None
                 THEN <<Step(event, t, <<>>, <<>>)>>
                 ELSE LET lca == LeastCommonAncestor(transition.from_state,
                                                     transition.to_state)
                      IN  <<Step(event, t,
                                 EnteredStates(transition.to_state, lca),
                                 ExitedStates(transition.from_state, lca))>>

-----------------------------------------------------------------------------
(* Applying a step.  An interpreter state st is a record                   *)
(*   [conf, mem, steps, err, log]                                          *)
(* of the configuration, the memory of the history states, the steps        *)
(* collected by the running call, the exception raised, "none" if none,    *)
(* and what the call did so far.                                           *)

\* An entry of the log: what was done, to what, in which configuration.
Did(op, arg, conf) == [op |-> op, arg |-> arg, conf |-> conf]

\* self._evaluator.execute_action(...) for each of ops in turn: every call
\* is logged; with an evaluator that may raise, each call may be the one
\* that raises, and then the rest is not run.
RECURSIVE RunActions(_, _)
RunActions(st, ops) ==
    IF st.err # "none" \/ ops = <<>> THEN {st}
    ELSE (IF evaluator = "raising"
          THEN {[st EXCEPT !.log = Append(@, Did(Head(ops)[1], Head(ops)[2], st.conf)),
                           !.err = "evaluator"]}
          ELSE {})
         \cup RunActions([st EXCEPT !.log = Append(@, Did(Head(ops)[1], Head(ops)[2],
                                                          st.conf))],
                         Tail(ops))

\* The exit actions of a step, in the order of its exited states.
ExitActions(step) ==
    [i \in DOMAIN SelectSeq(step.exited_states, LAMBDA x : x \in SM.on_exit) |->
        <<"exit", SelectSeq(step.exited_states, LAMBDA x : x \in SM.on_exit)[i]>>]

\* The action of the transition of a step, if it has one.
TransitionAction(step) ==
    IF step.transition # 0 /\ step.transition \in SM.actions
    THEN <<<<"action", step.transition>>>> ELSE <<>>

\* The entry actions of a step, in the order of its entered states.
EntryActions(step) ==
    [i \in DOMAIN SelectSeq(step.entered_states, LAMBDA x : x \in SM.on_entry) |->
        <<"entry", SelectSeq(step.entered_states, LAMBDA x : x \in SM.on_entry)[i]>>]

\* What is left of the iterator map(..., step.exited_states) once the loop
\* over the exit actions has run through it: nothing.
ExitedAfterExitActions(exited_states) ==
    SubSeq(exited_states, Len(exited_states) + 1, Len(exited_states))

\* The history children of the compound states of a list, in the order the
\* loops of _execute_step visit them.
RECURSIVE HistoryChildrenOf(_)
HistoryChildrenOf(states) ==
    IF states = <<>> THEN <<>>
    ELSE (IF KindOf(Head(states)) = "compound"
          THEN SelectSeq(Children(Head(states)), LAMBDA c : KindOf(c) = "history")
          ELSE <<>>) \o HistoryChildrenOf(Tail(states))

\* The history part of _execute_step over the history states hs.
RECURSIVE CaptureHistory(_, _)
CaptureHistory(st, hs) ==
    IF hs = <<>> \/ st.err # "none" THEN {st}
    ELSE LET child == Head(hs)
             state == Parent(child)
             active == IF child \in SM.deep
                       THEN st.conf \cap DescendantsFor(state)
                       ELSE st.conf \cap Range(Children(state))
             holds == IF child \in SM.deep
                      THEN Cardinality(active) >= 1
                      ELSE Cardinality(active) = 1
         IN  IF ~holds THEN {[st EXCEPT !.err = "assert"]}
             ELSE UNION {CaptureHistory([st EXCEPT !.mem[child] = m,
                                                  !.log = Append(@, Did("capture",
                                                                        child,
                                                                        st.conf))],
                                        Tail(hs))
                            : m \in Orderings(active)}

\* _execute_step up to the removal of the exited states: the exit actions,
\* the history, the removal.
ExitPhase(st, step) ==
    {IF s.err # "none" THEN s
     ELSE [s EXCEPT !.conf = s.conf \ Range(step.exited_states)]
        : s \in UNION {CaptureHistory(a, HistoryChildrenOf(
                                            ExitedAfterExitActions(step.exited_states)))
                          : a \in RunActions(st, ExitActions(step))}}

\* As EntryPhase, but the entered states are added before the actions run.
EntryPhaseAddsFirst(st, step) ==
    IF st.err # "none" THEN {st}
    ELSE UNION {RunActions(a, EntryActions(step))
                   : a \in RunActions([st EXCEPT !.conf = @ \cup Range(step.entered_states)],
                                      TransitionAction(step))}

\* _execute_step from the action of the transition on: that action, the
\* entry actions, the addition of the entered states.
EntryPhase(st, step) ==
    {IF s.err # "none" THEN s
     ELSE [s EXCEPT !.conf = s.conf \cup Range(step.entered_states)]
        : s \in UNION {RunActions(a, EntryActions(step))
                          : a \in RunActions(st, TransitionAction(step))}}

\* _execute_step : the states the step can lead to.
ExecuteStep(st, step) ==
    IF st.err # "none" THEN {st}
    ELSE UNION {EntryPhase(s, step)
                   : s \in ExitPhase([st EXCEPT !.log = Append(@, Did("step", step,
                                                                      st.conf))],
                                     step)}

-----------------------------------------------------------------------------
(* Stabilization *)

\* As StabilizeStepFor, but an orthogonal state enters its first child only.
StabilizeStepForOneRegion(st, leaf) ==
    CASE KindOf(leaf) = "history" ->
            Step(None, 0, SortByDepth(st.mem[leaf]), <<leaf>>)
      [] KindOf(leaf) = "orthogonal" ->
            Step(None, 0, SubSeq(Children(leaf), 1, 1), <<>>)
      [] KindOf(leaf) = "compound" ->
            Step(None, 0, <<SM.initial[leaf]>>, <<>>)

\* The step _stabilize_step builds for a leaf that is not stable.
StabilizeStepFor(st, leaf) ==
    CASE KindOf(leaf) = "history" ->
            Step(None, 0, SortByDepth(st.mem[leaf]), <<leaf>>)
      [] KindOf(leaf) = "orthogonal" ->
            Step(None, 0, Children(leaf), <<>>)
      [] KindOf(leaf) = "compound" ->
            Step(None, 0, <<SM.initial[leaf]>>, <<>>)

\* As NeedsStabilization, but a history leaf is taken to be stable.
NeedsStabilizationNoHistory(leaf) ==
    KindOf(leaf) \in {"orthogonal", "compound"}

\* Whether _stabilize_step returns a step when it meets this leaf.
NeedsStabilization(leaf) ==
    KindOf(leaf) \in {"history", "orthogonal", "compound"}

\* _stabilize_step : the leaves come from list(a_set), so the first unstable
\* leaf met can be any of them; the empty set stands for None.
StabilizeStep(st) ==
    {StabilizeStepFor(st, leaf)
        : leaf \in {l \in LeafFor(st.conf) : NeedsStabilization(l)}}

\* memory.sort() sorts the memory of the history state in place.
SortedInPlace(st, step) ==
    IF step.exited_states = <<>> THEN st
    ELSE [st EXCEPT !.mem[step.exited_states[1]] = step.entered_states]

\* _stabilize : the states the loop can end in; after fuel steps the loop is
\* taken to run forever.
RECURSIVE Stabilize(_, _)
Stabilize(st, fuel) ==
    IF st.err # "none" THEN {st}
    ELSE LET candidates == StabilizeStep(st)
         IN  IF candidates = {} THEN {st}
             ELSE IF fuel = 0 THEN {[st EXCEPT !.err = "diverge"]}
             ELSE UNION {UNION {Stabilize([s EXCEPT !.steps = Append(@, step)],
                                          fuel - 1)
                                   : s \in ExecuteStep(SortedInPlace(st, step), step)}
                            : step \in candidates}

-----------------------------------------------------------------------------
(* The calls of the interpreter *)

\* The entry action of the machine, if it has one.
MachineEntryAction == IF SM.sm_on_entry THEN <<<<"entry", None>>>> ELSE <<>>

\* The initial step of start().
InitialStep == Step(None, 0, <<SM.sm_initial>>, <<>>)

\* start()
StartCall(conf, mem) ==
    UNION {Stabilize(s, MaxStab)
              : s \in UNION {ExecuteStep(IF a.err # "none" THEN a
                                         ELSE [a EXCEPT !.steps = <<InitialStep>>],
                                         InitialStep)
                                : a \in RunActions([conf |-> conf, mem |-> mem,
                                                    steps |-> <<>>, err |-> "none",
                                                    log |-> <<Did("start", None, conf)>>],
                                                   MachineEntryAction)}}

\* The list the loop of `running` goes through, and its result.
RECURSIVE AnyNotFinal(_)
AnyNotFinal(leaves) ==
    IF leaves = {} THEN FALSE
    ELSE LET state == CHOOSE l \in leaves : TRUE
         IN  IF KindOf(state) # "final" THEN TRUE
             ELSE AnyNotFinal(leaves \ {state})

\* As Enqueue, but the event goes to the head of the queue.
EnqueueAtHead(evs, event) == <<event>> \o evs

\* self._events.append(event)
Enqueue(evs, event) == Append(evs, event)

\* As Running, but any active state counts.
RunningNonEmpty(conf) == conf # {}

\* running
Running(conf) == AnyNotFinal(LeafFor(conf))

\* As PopsEvent, but without a look at the eventless step.
PopsEventAlways(step, evs) == Len(evs) > 0

\* `not step and len(self._events) > 0` in execute()
PopsEvent(step, evs) == step = <<>> /\ Len(evs) > 0

\* As NoopSteps, but nothing is recorded.
NoNoopSteps(event) == <<>>

\* The step execute() records for an event no transition takes.
NoopSteps(event) == <<Step(event, 0, <<>>, <<>>)>>

\* The log of execute() when it comes to `if step:`.
ExecuteLog(conf, popped) ==
    <<Did("execute", None, conf)>>
    \o [i \in DOMAIN popped |-> Did("pop", popped[i], conf)]

\* The end of execute(): the step, if any, is recorded and applied, and the
\* configuration is stabilized.  steps is the list collected so far, step the
\* Step to apply (empty for None), evs the queue execute() leaves, popped
\* what it took from the queue.
ExecuteAndStabilize(conf, mem, evs, steps, step, popped) ==
    {[conf |-> r.conf, mem |-> r.mem, steps |-> r.steps, err |-> r.err,
      log |-> r.log, events |-> evs]
        : r \in UNION {Stabilize(s, MaxStab)
                          : s \in (IF step # <<>>
                                   THEN ExecuteStep([conf |-> conf, mem |-> mem,
                                                     steps |-> steps \o step,
                                                     err |-> "none",
                                                     log |-> ExecuteLog(conf, popped)],
                                                    step[1])
                                   ELSE {[conf |-> conf, mem |-> mem,
                                          steps |-> steps, err |-> "none",
                                          log |-> ExecuteLog(conf, popped)]})}}

\* The branch of execute() that pops the head of the queue.
ExecuteEvent(conf, mem, evs, event, step) ==
    ExecuteAndStabilize(conf, mem, evs,
                        IF step = <<>> THEN NoopSteps(event) ELSE <<>>, step,
                        <<event>>)

\* execute() from the point where the eventless step is known.
ExecuteFrom(conf, mem, evs, g, eventless) ==
    IF PopsEvent(eventless, evs)
    THEN ExecuteEvent(conf, mem, Tail(evs), Head(evs),
                      TransitionStep(conf, Head(evs), g))
    ELSE ExecuteAndStabilize(conf, mem, evs, <<>>, eventless, <<>>)

\* execute() : the outcomes of one macrostep, each with the queue it leaves.
ExecuteCall(conf, mem, evs, g) ==
    ExecuteFrom(conf, mem, evs, g, TransitionStep(conf, None, g))

-----------------------------------------------------------------------------
(* The generator of __iter__ *)

\* As NextNullSteps, with the two branches exchanged.
NextNullStepsInverted(steps, n) == IF steps # <<>> THEN n + 1 ELSE 0

\* `0 if step else consecutive_null_steps + 1`
NextNullSteps(steps, n) == IF steps # <<>> THEN 0 ELSE n + 1

\* As InfiniteRunDetected, one macrostep late.
InfiniteRunDetectedLate(n) == n > MaxNullSteps

\* `consecutive_null_steps >= 42`
InfiniteRunDetected(n) == n >= MaxNullSteps

\* `raise StopIteration()` in a generator ends the iteration where the
\* interpreter predates PEP 479 and is a RuntimeError where it does not.
StopOutcomes == {"done", "runtime_error"}

\* The descendants of the parents of the history states that were active when
\* the transition of a macrostep exited them.
ExitedBy(steps, conf, old) ==
    IF steps # <<>> /\ steps[1].transition # 0
    THEN [h \in HistoryStates |->
            IF Parent(h) \in Range(steps[1].exited_states)
            THEN conf \cap DescendantsFor(Parent(h)) ELSE old[h]]
    ELSE old

\* Whether a macrostep is an eventless transition that left conf as it was.
Quiet(steps, conf, after) ==
    /\ steps # <<>>
    /\ steps[1].transition # 0
    /\ Transitions[steps[1].transition].event = None
    /\ after = conf

\* As NeedsStart, but the interpreter is started whatever its state.
NeedsStartAlways(conf) == TRUE

\* `if not self.running` at the head of __iter__
NeedsStart(conf) == ~Running(conf)

\* One round of `while self.running: ...` up to the yield, the raise, or the
\* end of the loop.
LoopBody(conf, mem, evs, n, g) ==
    IF ~Running(conf)
    THEN {[conf |-> conf, mem |-> mem, events |-> evs, steps |-> <<>>,
           err |-> "none", log |-> <<>>, pc |-> o, n |-> 0, before |-> conf,
           ran |-> FALSE]
             : o \in StopOutcomes}
    ELSE {[conf |-> r.conf, mem |-> r.mem, events |-> r.events,
           steps |-> IF r.err = "none" THEN r.steps ELSE <<>>,
           err |-> r.err, log |-> r.log,
           pc |-> IF r.err # "none" THEN "raised"
                  ELSE IF InfiniteRunDetected(NextNullSteps(r.steps, n))
                       THEN "infinite_run" ELSE "suspended",
           n |-> IF r.err # "none" THEN 0 ELSE NextNullSteps(r.steps, n),
           before |-> conf, ran |-> TRUE]
             : r \in ExecuteCall(conf, mem, evs, g)}

\* What the generator does to the variables.
Resume(r, g, call) ==
    /\ configuration' = r.conf
    /\ memory' = r.mem
    /\ events' = r.events
    /\ iterPc' = r.pc
    /\ consecutive_null_steps' = r.n
    /\ lastCall' = call
    /\ lastSteps' = r.steps
    /\ lastEval' = g
    /\ lastError' = r.err
    /\ lastLog' = r.log
    /\ exitedActive' = ExitedBy(r.steps, r.before, exitedActive)
    /\ quietRuns' = IF r.ran /\ Quiet(r.steps, r.before, r.conf)
                    THEN quietRuns + 1 ELSE 0
    /\ UNCHANGED <<sm, evaluator, traceVars, threadVars>>

-----------------------------------------------------------------------------
(* The specification *)

NoAnswers == [i \in Guarded |-> FALSE]

\* The interpreter after construction, but for its evaluator.
Constructed ==
    /\ sm \in ModelNames
    /\ configuration = {}
    /\ events = <<>>
    /\ memory = Models[sm].memory
    /\ iterPc = "none"
    /\ consecutive_null_steps = 0
    /\ lastCall = "init"
    /\ lastSteps = <<>>
    /\ lastEval = [i \in {j \in DOMAIN Models[sm].transitions :
                             Models[sm].transitions[j].condition} |-> FALSE]
    /\ lastError = "none"
    /\ exitedActive = [h \in {s \in DOMAIN Models[sm].kind :
                                 Models[sm].kind[s] = "history"} |-> {}]
    /\ lastLog = <<>>
    /\ quietRuns = 0
    /\ traced = FALSE
    /\ trace = <<>>
    /\ bgPc = "none"
    /\ bgStep = <<>>
    /\ bgLocal = {}
    /\ bgStopped = FALSE
    /\ bgStopConf = {}
    /\ bgLateExits = {}

\* An interpreter whose evaluator runs every action to its end.
Init == Constructed /\ evaluator = "total"

\* An interpreter whose evaluator may raise on any action.
InitRaising == Constructed /\ evaluator = "raising"

\* A call that runs forever never returns.
Returned == lastError # "diverge"

\* simulator.start()
Start ==
    /\ Returned
    /\ \E r \in StartCall(configuration, memory) :
        /\ configuration' = r.conf
        /\ memory' = r.mem
        /\ lastCall' = "start"
        /\ lastSteps' = IF r.err = "none" THEN r.steps ELSE <<>>
        /\ lastEval' = NoAnswers
        /\ lastError' = r.err
        /\ lastLog' = r.log
    /\ UNCHANGED <<sm, evaluator, events, iterPc, consecutive_null_steps,
                   exitedActive, quietRuns, traceVars, threadVars>>

\* simulator.fire_event(event)
FireEvent(event) ==
    /\ Returned
    /\ Len(events) < MaxQueue
    /\ events' = Enqueue(events, event)
    /\ lastCall' = "fire_event"
    /\ lastSteps' = <<>>
    /\ lastEval' = NoAnswers
    /\ lastError' = "none"
    /\ lastLog' = <<>>
    /\ UNCHANGED <<sm, evaluator, configuration, memory, iterPc,
                   consecutive_null_steps, exitedActive, quietRuns, traceVars,
                   threadVars>>

\* simulator.execute()
Execute ==
    /\ Returned
    /\ \E g \in [Guarded -> BOOLEAN] :
         \E r \in ExecuteCall(configuration, memory, events, g) :
            /\ configuration' = r.conf
            /\ memory' = r.mem
            /\ events' = r.events
            /\ lastCall' = "execute"
            /\ lastSteps' = IF r.err = "none" THEN r.steps ELSE <<>>
            /\ lastEval' = g
            /\ lastError' = r.err
            /\ lastLog' = r.log
            /\ exitedActive' = ExitedBy(r.steps, configuration, exitedActive)
    /\ UNCHANGED <<sm, evaluator, iterPc, consecutive_null_steps, quietRuns,
                   traceVars, threadVars>>

\* The first next() on a new generator: iter(simulator), then the body of
\* __iter__ up to its first yield.
IterNext ==
    /\ Returned
    /\ iterPc # "suspended"
    /\ \E g \in [Guarded -> BOOLEAN] :
         \E s \in (IF NeedsStart(configuration)
                   THEN StartCall(configuration, memory)
                   ELSE {[conf |-> configuration, mem |-> memory, err |-> "none",
                          log |-> <<>>]}) :
            IF s.err # "none"
            THEN Resume([conf |-> s.conf, mem |-> s.mem, events |-> events,
                         steps |-> <<>>, err |-> s.err, log |-> s.log,
                         pc |-> "raised", n |-> 0, before |-> s.conf,
                         ran |-> FALSE], g, "next")
            ELSE \E r \in LoopBody(s.conf, s.mem, events, 0, g) :
                    Resume([r EXCEPT !.log = s.log \o @], g, "next")

\* generator.send(event), or next(generator) when event is None: the yield
\* returns, the event is fired, and the loop goes round to the next yield.
IterSend(event) ==
    /\ Returned
    /\ iterPc = "suspended"
    /\ quietRuns < MaxQuiet
    /\ event # None => Len(events) < MaxQueue
    /\ \E g \in [Guarded -> BOOLEAN] :
         \E r \in LoopBody(configuration, memory,
                           IF event # None THEN Enqueue(events, event) ELSE events,
                           consecutive_null_steps, g) :
            Resume(r, g, "send")

\* thread.stop() of run_in_background
StopThread ==
    /\ Returned
    /\ configuration' = {}
    /\ lastCall' = "stop"
    /\ lastSteps' = <<>>
    /\ lastEval' = NoAnswers
    /\ lastError' = "none"
    /\ lastLog' = <<>>
    /\ UNCHANGED <<sm, evaluator, events, memory, iterPc,
                   consecutive_null_steps, exitedActive, quietRuns, traceVars,
                   threadVars>>

Next ==
    \/ Start
    \/ \E event \in SM.alphabet : FireEvent(event)
    \/ Execute
    \/ IterNext
    \/ \E event \in SM.alphabet \cup {None} : IterSend(event)
    \/ StopThread

Spec == Init /\ [][Next]_vars

\* The interpreter driven through start(), fire_event() and execute() only.
NextApi ==
    \/ Start
    \/ \E event \in SM.alphabet : FireEvent(event)
    \/ Execute

\* The calls of the interpreter and its iteration, without the stop of a
\* background thread.
NextIter ==
    \/ Start
    \/ \E event \in SM.alphabet : FireEvent(event)
    \/ Execute
    \/ IterNext
    \/ \E event \in SM.alphabet \cup {None} : IterSend(event)

SpecIter == Init /\ [][NextIter]_vars

\* The same calls on an interpreter whose evaluator may raise.
SpecRaising == InitRaising /\ [][NextApi]_vars

SpecApi == Init /\ [][NextApi]_vars

-----------------------------------------------------------------------------
(* log_trace: the one-macrostep entry point of the interpreter is replaced *)
(* by a function that calls it and keeps what it returns.                  *)

\* As Traced, but whatever the call returns is appended.
TracedAlways(tr, step) == Append(tr, step)

\* `if step: trace.append(step)` in new_func
Traced(tr, step) == IF step # <<>> THEN Append(tr, step) ELSE tr

\* log_trace(interpreter)
LogTrace ==
    /\ Returned
    /\ ~traced
    /\ traced' = TRUE
    /\ trace' = <<>>
    /\ lastCall' = "log_trace"
    /\ lastSteps' = <<>>
    /\ lastEval' = NoAnswers
    /\ lastError' = "none"
    /\ lastLog' = <<>>
    /\ UNCHANGED <<sm, evaluator, configuration, events, memory, iterPc,
                   consecutive_null_steps, exitedActive, quietRuns, threadVars>>

\* new_func() : `step = func()`, the append, `return step`; a call of func
\* that raises leaves the trace alone.
ExecuteTraced ==
    /\ Returned
    /\ traced
    /\ Len(trace) < MaxTrace
    /\ \E g \in [Guarded -> BOOLEAN] :
         \E r \in ExecuteCall(configuration, memory, events, g) :
            /\ configuration' = r.conf
            /\ memory' = r.mem
            /\ events' = r.events
            /\ lastCall' = "execute_traced"
            /\ lastSteps' = IF r.err = "none" THEN r.steps ELSE <<>>
            /\ lastEval' = g
            /\ lastError' = r.err
            /\ lastLog' = r.log
            /\ exitedActive' = ExitedBy(r.steps, configuration, exitedActive)
            /\ trace' = IF r.err = "none" THEN Traced(trace, r.steps) ELSE trace
    /\ UNCHANGED <<sm, evaluator, iterPc, consecutive_null_steps, quietRuns,
                   traced, threadVars>>

\* The interpreter is used as it is, then wrapped, then used through the
\* wrapper.
NextTrace ==
    \/ Start
    \/ \E event \in SM.alphabet : FireEvent(event)
    \/ ~traced /\ Execute
    \/ LogTrace
    \/ ExecuteTraced

SpecTrace == Init /\ [][NextTrace]_vars

-----------------------------------------------------------------------------
(* run_in_background: the thread of _task and the caller's thread share    *)
(* the interpreter without a lock, so the steps of the two interleave.  A  *)
(* step of _task is one statement of execute(), with the read and the      *)
(* store of `self._configuration = self._configuration.difference(...)`    *)
(* and of `... .union(...)` taken apart.                                   *)

\* What a step of the thread leaves alone.
BgUnchanged ==
    UNCHANGED <<sm, evaluator, iterPc, consecutive_null_steps, lastSteps,
                lastEval, lastError, lastLog, exitedActive, quietRuns,
                traceVars, bgStopped, bgStopConf>>

\* run_in_background(interpreter) : thread.start()
RunInBackground ==
    /\ bgPc = "none"
    /\ bgPc' = "test"
    /\ lastCall' = "run_in_background"
    /\ UNCHANGED <<configuration, events, memory, bgStep, bgLocal, bgLateExits>>
    /\ BgUnchanged

\* `while not interpreter.final`
BgTest ==
    /\ bgPc = "test"
    /\ bgPc' = IF Running(configuration) THEN "execute" ELSE "ended"
    /\ lastCall' = "background"
    /\ UNCHANGED <<configuration, events, memory, bgStep, bgLocal, bgLateExits>>
    /\ BgUnchanged

\* execute() up to `if step:` : the Step of the eventless transition, or of
\* the transition of the popped event.
BgSelect ==
    /\ bgPc = "execute"
    /\ \E g \in [Guarded -> BOOLEAN] :
         IF PopsEvent(TransitionStep(configuration, None, g), events)
         THEN /\ events' = Tail(events)
              /\ bgStep' = TransitionStep(configuration, Head(events), g)
         ELSE /\ events' = events
              /\ bgStep' = TransitionStep(configuration, None, g)
    /\ bgPc' = IF bgStep' # <<>> THEN "exit" ELSE "stabilize"
    /\ lastCall' = "background"
    /\ UNCHANGED <<configuration, memory, bgLocal, bgLateExits>>
    /\ BgUnchanged

\* _execute_step : the exit actions (the history loop that follows does
\* nothing).
BgExit ==
    /\ bgPc = "exit"
    /\ bgLateExits' = IF bgStopped
                      THEN bgLateExits \cup (Range(bgStep[1].exited_states)
                                                \cap SM.on_exit \cap bgStopConf)
                      ELSE bgLateExits
    /\ bgPc' = "difference"
    /\ lastCall' = "background"
    /\ UNCHANGED <<configuration, events, memory, bgStep, bgLocal>>
    /\ BgUnchanged

\* self._configuration.difference(step.exited_states)
BgDifference ==
    /\ bgPc = "difference"
    /\ bgLocal' = configuration \ Range(bgStep[1].exited_states)
    /\ bgPc' = "remove"
    /\ lastCall' = "background"
    /\ UNCHANGED <<configuration, events, memory, bgStep, bgLateExits>>
    /\ BgUnchanged

\* self._configuration = <the difference> ; the action of the transition and
\* the entry actions follow.
BgRemove ==
    /\ bgPc = "remove"
    /\ configuration' = bgLocal
    /\ bgPc' = "union"
    /\ lastCall' = "background"
    /\ UNCHANGED <<events, memory, bgStep, bgLocal, bgLateExits>>
    /\ BgUnchanged

\* self._configuration.union(step.entered_states)
BgUnion ==
    /\ bgPc = "union"
    /\ bgLocal' = configuration \cup Range(bgStep[1].entered_states)
    /\ bgPc' = "add"
    /\ lastCall' = "background"
    /\ UNCHANGED <<configuration, events, memory, bgStep, bgLateExits>>
    /\ BgUnchanged

\* self._configuration = <the union>
BgAdd ==
    /\ bgPc = "add"
    /\ configuration' = bgLocal
    /\ bgPc' = "stabilize"
    /\ lastCall' = "background"
    /\ UNCHANGED <<events, memory, bgStep, bgLocal, bgLateExits>>
    /\ BgUnchanged

\* _stabilize : one call of _stabilize_step; without a Step execute()
\* returns and the thread goes round its loop.
BgStabilize ==
    /\ bgPc = "stabilize"
    /\ IF StabilizeStep([conf |-> configuration, mem |-> memory]) = {}
       THEN /\ bgPc' = "test"
            /\ UNCHANGED <<memory, bgStep>>
       ELSE \E step \in StabilizeStep([conf |-> configuration, mem |-> memory]) :
               /\ memory' = SortedInPlace([conf |-> configuration,
                                           mem |-> memory], step).mem
               /\ bgStep' = <<step>>
               /\ bgPc' = "exit"
    /\ lastCall' = "background"
    /\ UNCHANGED <<configuration, events, bgLocal, bgLateExits>>
    /\ BgUnchanged

\* thread.stop(), called from the caller's thread while _task runs
BgStop ==
    /\ bgPc # "none"
    /\ ~bgStopped
    /\ configuration' = {}
    /\ bgStopped' = TRUE
    /\ bgStopConf' = configuration
    /\ lastCall' = "stop"
    /\ UNCHANGED <<sm, evaluator, events, memory, iterPc,
                   consecutive_null_steps, lastSteps, lastEval, lastError,
                   lastLog, exitedActive, quietRuns, traceVars, bgPc, bgStep,
                   bgLocal, bgLateExits>>

\* The interpreter is started and fed by the caller, who then runs it in
\* the background and may stop it.
NextBackground ==
    \/ bgPc = "none" /\ Start
    \/ \E event \in SM.alphabet : FireEvent(event)
    \/ RunInBackground
    \/ BgTest
    \/ BgSelect
    \/ BgExit
    \/ BgDifference
    \/ BgRemove
    \/ BgUnion
    \/ BgAdd
    \/ BgStabilize
    \/ BgStop

SpecBackground == Init /\ [][NextBackground]_vars

-----------------------------------------------------------------------------
(* Properties *)

\* The first step of the last macrostep is the step of a transition.
TookTransition(steps) == steps # <<>> /\ steps[1].transition # 0

\* A state and its descendants.
Subtree(s) == {s} \cup DescendantsFor(s)

\* C1 -- Ancestor-closure: in every reachable configuration, every ancestor
\* of an active state is active too, also after a transition whose source is
\* a compound or orthogonal state with active descendants, or one that
\* leaves an orthogonal state from inside one region.
C1_AncestorClosure ==
    \A s \in configuration :
        \A a \in Range(AncestorsFor(s)) : a \in configuration

\* C2 -- Leaf atomicity: once start() or execute() has returned, every leaf
\* of the configuration is a basic or a final state.
C2_LeafAtomicity ==
    (lastCall \in {"start", "execute"} /\ lastError = "none")
        => \A l \in configuration :
              (\A d \in configuration : l \notin Range(AncestorsFor(d)))
                  => KindOf(l) \in {"basic", "final"}

\* A call returned after it expanded a history state.
C2_Witness ==
    /\ lastCall = "execute"
    /\ lastError = "none"
    /\ \E i \in DOMAIN lastSteps :
          /\ lastSteps[i].exited_states # <<>>
          /\ KindOf(lastSteps[i].exited_states[1]) = "history"

\* C3 -- History round-trip: when a transition enters a compound state
\* through its history state h after the compound state was exited, the
\* active part of the compound state is the compound state and the child
\* that was active at the exit (shallow), or holds every descendant that was
\* active at the exit (deep).
C3_HistoryRoundTrip ==
    \A h \in HistoryStates :
        ( /\ lastCall = "execute"
          /\ lastError = "none"
          /\ TookTransition(lastSteps)
          /\ Transitions[lastSteps[1].transition].to_state = h
          /\ exitedActive[h] # {} )
        => IF h \in SM.deep
           THEN exitedActive[h] \subseteq configuration
           ELSE configuration \cap Subtree(Parent(h))
                   = {Parent(h)} \cup (exitedActive[h] \cap Range(Children(Parent(h))))

\* C4 (as stated) -- Infinite-run guard: the 42nd consecutive macrostep made
\* of an eventless transition that leaves the configuration as it is makes
\* the generator fail with the infinite-run error.
C4_QuietRunFails ==
    quietRuns >= MaxNullSteps => iterPc = "infinite_run"

\* C4 (amended) -- a macrostep made of an eventless transition that leaves
\* the configuration as it is holds the Step of that transition, so it
\* resets the count of null macrosteps and the generator is suspended at its
\* yield, however many such macrosteps came before.
C4_QuietRunResets ==
    quietRuns > 0 => (consecutive_null_steps = 0 /\ iterPc = "suspended")

\* 42 such macrosteps in a row, and the generator still going.
C4_Witness ==
    quietRuns >= MaxNullSteps /\ iterPc = "suspended"

\* C5 -- Unproductive-cycle detection: a macrostep of the iteration that
\* produced no Step adds one to the count and any other resets it to zero;
\* the generator fails exactly when the count reaches 42, so the first 41
\* empty macrosteps in a row are yielded and the 42nd is fatal.
C5_UnproductiveCycle ==
    [][ (lastCall' \in {"next", "send"}
            /\ iterPc' \in {"suspended", "infinite_run"})
        => LET before == IF lastCall' = "next" THEN 0
                         ELSE consecutive_null_steps
           IN  /\ consecutive_null_steps'
                    = (IF lastSteps' = <<>> THEN before + 1 ELSE 0)
               /\ (iterPc' = "infinite_run") = (consecutive_null_steps' = 42)
               /\ consecutive_null_steps' <= 42 ]_vars

\* The generator failed on the infinite-run guard.
C5_Witness ==
    iterPc = "infinite_run" /\ consecutive_null_steps = 42

\* Some eventless transition is actionable in conf when the evaluator
\* answers g.
EventlessActionable(conf, g) ==
    \E i \in DOMAIN Transitions :
        /\ Transitions[i].event = None
        /\ Transitions[i].from_state \in conf
        /\ (Transitions[i].condition => g[i])

\* Some transition is actionable in conf for the event.
EventActionable(conf, event, g) ==
    \E i \in DOMAIN Transitions :
        /\ Transitions[i].event = event
        /\ Transitions[i].from_state \in conf
        /\ (Transitions[i].condition => g[i])

\* C6 -- Eventless priority: an execute() that finds an eventless transition
\* actionable leaves the queue as it is and executes an eventless
\* transition; it pops an event only when no eventless transition is
\* actionable.
C6_EventlessPriority ==
    [][ (lastCall' = "execute" /\ lastError' = "none")
        => /\ EventlessActionable(configuration, lastEval')
                => /\ events' = events
                   /\ TookTransition(lastSteps')
                   /\ Transitions[lastSteps'[1].transition].event = None
           /\ events' # events
                => ~EventlessActionable(configuration, lastEval') ]_vars

\* An eventless transition was executed while an event was waiting.
C6_Witness ==
    /\ lastCall = "execute"
    /\ events # <<>>
    /\ TookTransition(lastSteps)
    /\ Transitions[lastSteps[1].transition].event = None

\* C7 -- Deepest-wins tie-break: the transition execute() selects is
\* actionable, no transition actionable for the same trigger has a deeper
\* source, and none with a source of the same depth is declared earlier.
C7_DeepestWins ==
    [][ (lastCall' = "execute" /\ TookTransition(lastSteps'))
        => LET t == lastSteps'[1].transition
               actionable ==
                   {i \in DOMAIN Transitions :
                       /\ Transitions[i].event = Transitions[t].event
                       /\ Transitions[i].from_state \in configuration
                       /\ (Transitions[i].condition => lastEval'[i])}
               depth(i) == Len(AncestorsFor(Transitions[i].from_state))
           IN  /\ t \in actionable
               /\ \A i \in actionable :
                     /\ depth(i) <= depth(t)
                     /\ depth(i) = depth(t) => t <= i ]_vars

\* The selected transition won against one declared earlier whose source,
\* an ancestor of its own source, is active.
C7_Witness ==
    /\ lastCall = "execute"
    /\ TookTransition(lastSteps)
    /\ \E i \in DOMAIN Transitions :
          LET t == lastSteps[1].transition
          IN  /\ i < t
              /\ Transitions[i].event = Transitions[t].event
              /\ Transitions[i].from_state
                    \in Range(AncestorsFor(Transitions[t].from_state))
              /\ Transitions[i].from_state \in configuration

\* C8 -- No-op event consumption: an execute() that finds no eventless
\* transition actionable and no transition actionable for the head of the
\* queue removes that event, leaves the configuration as it is, and returns
\* a first Step with the event, no transition and nothing entered or exited.
C8_NoopConsumption ==
    [][ ( /\ lastCall' = "execute"
          /\ lastError' = "none"
          /\ events # <<>>
          /\ ~EventlessActionable(configuration, lastEval')
          /\ ~EventActionable(configuration, Head(events), lastEval') )
        => /\ events' = Tail(events)
           /\ configuration' = configuration
           /\ lastSteps' # <<>>
           /\ lastSteps'[1] = [event |-> Head(events), transition |-> 0,
                               entered_states |-> <<>>, exited_states |-> <<>>] ]_vars

\* An event was consumed by no transition.
C8_Witness ==
    /\ lastCall = "execute"
    /\ lastSteps # <<>>
    /\ lastSteps[1].transition = 0
    /\ lastSteps[1].event # None

\* A macrostep entered the orthogonal state P of the machine "orth" while no
\* state of P was active.
EntersP ==
    /\ sm = "orth"
    /\ lastCall' = "execute"
    /\ lastError' = "none"
    /\ lastSteps' # <<>>
    /\ "P" \in Range(lastSteps'[1].entered_states)
    /\ configuration \cap Subtree("P") = {}

\* C9 (as stated) -- Orthogonal entry: entering P stabilizes to the
\* configuration {P, R1, R1a, R2, R2a} and the stabilization produces two
\* Steps.
C9_TwoSteps ==
    [][ EntersP => /\ configuration' = {"P", "R1", "R1a", "R2", "R2a"}
                   /\ Len(lastSteps') - 1 = 2 ]_vars

\* C9 (amended) -- Orthogonal entry: entering P stabilizes to the
\* configuration {P, R1, R1a, R2, R2a} and the stabilization produces three
\* Steps: one that enters R1 and R2, then one for each region that enters
\* its initial child, the regions in either order.
C9_ThreeSteps ==
    [][ EntersP => /\ configuration' = {"P", "R1", "R1a", "R2", "R2a"}
                   /\ Len(lastSteps') - 1 = 3
                   /\ lastSteps'[2] = [event |-> None, transition |-> 0,
                                       entered_states |-> <<"R1", "R2">>,
                                       exited_states |-> <<>>]
                   /\ {lastSteps'[3], lastSteps'[4]}
                         = {[event |-> None, transition |-> 0,
                             entered_states |-> <<r>>, exited_states |-> <<>>]
                               : r \in {"R1a", "R2a"}} ]_vars

\* P was entered and stabilized.
C9_Witness ==
    /\ sm = "orth"
    /\ lastCall = "execute"
    /\ Len(lastSteps) = 4
    /\ "P" \in Range(lastSteps[1].entered_states)
    /\ configuration = {"P", "R1", "R1a", "R2", "R2a"}

\* C10 -- running holds exactly when some leaf of the configuration is not a
\* final state: not on a new interpreter, not after the configuration was
\* emptied by force, not when every leaf is final, and after start() whenever
\* some leaf is not final.
C10_Running ==
    /\ Running(configuration)
          = (\E s \in configuration :
                /\ \A d \in configuration : s \notin Range(AncestorsFor(d))
                /\ KindOf(s) # "final")
    /\ lastCall \in {"init", "stop"} => ~Running(configuration)
    /\ (configuration # {} /\ \A s \in configuration : KindOf(s) = "final")
          => ~Running(configuration)

\* The interpreter runs with a final leaf next to one that is not final.
C10_Witness ==
    /\ Running(configuration)
    /\ \E l \in LeafFor(configuration) : KindOf(l) = "final"

\* The places of a log where an operation of the given kind is recorded.
Places(log, op) == {i \in DOMAIN log : log[i].op = op}

\* C11 -- Iteration protocol: the first next() calls start() exactly when the
\* interpreter is not running, and no later resumption calls it; a resumption
\* computes at most one macrostep, and exactly one when it yields; a macrostep
\* is computed only while running is true, so the iteration ends with running
\* false and without a macrostep.
C11_IterationProtocol ==
    [][ lastCall' \in {"next", "send"}
        => /\ Places(lastLog', "start")
                 = (IF lastCall' = "next" /\ ~Running(configuration)
                    THEN {1} ELSE {})
           /\ Cardinality(Places(lastLog', "execute")) <= 1
           /\ \A i \in Places(lastLog', "execute") : Running(lastLog'[i].conf)
           /\ iterPc' = "suspended"
                 => Cardinality(Places(lastLog', "execute")) = 1
           /\ iterPc' = "done"
                 => /\ ~Running(configuration')
                    /\ Places(lastLog', "execute") = {} ]_vars

\* The iteration ended after a resumption found the machine in a final
\* configuration.
C11_Witness ==
    /\ lastCall = "send"
    /\ iterPc = "done"
    /\ configuration # {}

\* The event a macrostep consumed, None if it consumed none.
Consumed(steps) == IF steps = <<>> THEN None ELSE steps[1].event

\* Whether a macrostep that found the queue before left it after: it took
\* nothing from it, or it took its head and nothing else.
HeadOnly(before, after, steps) ==
    \/ after = before /\ Consumed(steps) = None
    \/ /\ before # <<>>
       /\ after = Tail(before)
       /\ Consumed(steps) = Head(before)

\* C12 -- The event queue is FIFO: fire_event and the event sent into the
\* iteration append to the tail, the sent event before the macrostep of that
\* resumption is computed; a macrostep takes at most one event, the head of
\* the queue, and that is the event its Steps carry; no other call touches
\* the queue.
C12_Fifo ==
    [][ /\ lastCall' = "fire_event"
            => \E e \in SM.alphabet : events' = Append(events, e)
        /\ lastCall' \in {"execute", "next"}
            => HeadOnly(events, events', lastSteps')
        /\ lastCall' = "send"
            => \/ HeadOnly(events, events', lastSteps')
               \/ \E e \in SM.alphabet :
                     HeadOnly(Append(events, e), events', lastSteps')
        /\ lastCall' \in {"start", "stop"} => events' = events ]_vars

\* A macrostep took the head of a queue of two different events and left
\* the other one.
C12_Witness ==
    /\ lastCall \in {"execute", "send"}
    /\ events # <<>>
    /\ Consumed(lastSteps) \notin {None, events[1]}

\* The last place of a log where a Step began to be applied, 0 if none did.
LastStep(log) ==
    IF Places(log, "step") = {} THEN 0
    ELSE CHOOSE p \in Places(log, "step") : \A q \in Places(log, "step") : q <= p

\* C13 -- Evaluator failure: the action that raised is the last thing the
\* call did, so no later action runs and no stabilization follows.  Raised
\* by an exit action, the failure leaves the Configuration as it was before
\* the Step; raised by the action of the transition or by an entry action,
\* it leaves that Configuration minus the exited states of the Step; raised
\* by the entry action of the machine, before any Step, it leaves the
\* Configuration alone.  The event execute() popped stays popped.
C13_EvaluatorFailure ==
    [][ lastError' = "evaluator"
        => LET log == lastLog'
               failed == log[Len(log)]
               p == LastStep(log)
           IN  /\ failed.op \in {"exit", "action", "entry"}
               /\ p < Len(log)
               /\ configuration' = failed.conf
               /\ lastSteps' = <<>>
               /\ p = 0 => configuration' = configuration
               /\ (p # 0 /\ failed.op = "exit") => configuration' = log[p].conf
               /\ (p # 0 /\ failed.op \in {"action", "entry"})
                     => configuration'
                          = log[p].conf \ Range(log[p].arg.exited_states)
               /\ lastCall' = "start" => events' = events
               /\ lastCall' = "execute"
                     => IF Places(log, "pop") = {}
                        THEN events' = events
                        ELSE /\ Places(log, "pop") = {2}
                             /\ events # <<>>
                             /\ log[2].arg = Head(events)
                             /\ events' = Tail(events) ]_vars

\* An entry action raised in the Step of a transition that took an event:
\* the exited states are gone, the entered state is not there, and the event
\* has left the queue.
C13_Witness ==
    /\ lastError = "evaluator"
    /\ lastCall = "execute"
    /\ lastLog[Len(lastLog)].op = "entry"
    /\ Places(lastLog, "pop") = {2}
    /\ LastStep(lastLog) = 3
    /\ lastLog[3].arg.event = lastLog[2].arg
    /\ lastLog[3].arg.exited_states # <<>>
    /\ Range(lastLog[3].arg.entered_states) \cap configuration = {}
    /\ Range(lastLog[3].arg.exited_states) \cap configuration = {}

\* C14 -- Background driver stop: once stop() was called on the thread, no
\* exit action of a state that was active at that time is run, and when the
\* loop of the thread has ended the Configuration is empty, however the call
\* of stop() fell between the steps of the thread.
C14_StopEmpties ==
    bgStopped => /\ bgLateExits = {}
                 /\ bgPc = "ended" => configuration = {}

\* C15 -- Tracing wrapper is transparent: a call through the wrapper leaves
\* the interpreter in a state the unwrapped call leaves it in from the same
\* state and returns what that call returns; a result that is not empty is
\* appended to the trace, so the trace is the sequence of such results in the
\* order of the calls, and an empty result is not appended.
C15_TraceTransparent ==
    [][ lastCall' = "execute_traced"
        => /\ \E g \in [Guarded -> BOOLEAN] :
                \E r \in ExecuteCall(configuration, memory, events, g) :
                   /\ configuration' = r.conf
                   /\ memory' = r.mem
                   /\ events' = r.events
                   /\ lastError' = r.err
                   /\ r.err = "none" => lastSteps' = r.steps
           /\ trace' = IF lastError' = "none" /\ lastSteps' # <<>>
                       THEN Append(trace, lastSteps') ELSE trace ]_vars

\* Two results were traced and the last call through the wrapper returned
\* an empty one.
C15_Witness ==
    /\ lastCall = "execute_traced"
    /\ lastSteps = <<>>
    /\ Len(trace) >= 2

\* Whether seq goes from the state bottom up its parents and stops at the
\* child of top (at a state without parent when top is None).
ChainBelow(seq, bottom, top) ==
    /\ seq # <<>>
    /\ seq[1] = bottom
    /\ \A i \in 1..(Len(seq) - 1) : seq[i + 1] = Parent(seq[i])
    /\ Parent(seq[Len(seq)]) = top
    /\ top \notin Range(seq)

\* A sequence read from its end.
Backwards(seq) == [i \in DOMAIN seq |-> seq[Len(seq) + 1 - i]]

\* C16 -- Step Builder: the Step of a transition without target exits and
\* enters nothing, and the macrostep leaves the Configuration and the
\* history memory as they were; the Step of a transition with a target exits
\* the source and then its ancestors below the LCA, child before parent, and
\* enters the ancestors of the target below the LCA, parent before child,
\* and the target last.  A transition between two children of a compound
\* state exits the one, enters the other, and turns {A, A1} into {A, A2}.
C16_StepBuilder ==
    [][ (lastCall' = "execute" /\ TookTransition(lastSteps'))
        => LET step == lastSteps'[1]
               t == Transitions[step.transition]
               lca == LeastCommonAncestor(t.from_state, t.to_state)
           IN  IF t.to_state = None
               THEN /\ step.exited_states = <<>>
                    /\ step.entered_states = <<>>
                    /\ configuration' = configuration
                    /\ memory' = memory
               ELSE /\ ChainBelow(step.exited_states, t.from_state, lca)
                    /\ ChainBelow(Backwards(step.entered_states), t.to_state, lca)
                    /\ (/\ t.from_state # t.to_state
                        /\ Parent(t.from_state) = Parent(t.to_state)
                        /\ Parent(t.from_state) # None
                        /\ KindOf(Parent(t.from_state)) = "compound")
                          => /\ step.exited_states = <<t.from_state>>
                             /\ step.entered_states = <<t.to_state>>
                             /\ (/\ configuration
                                       = {Parent(t.from_state), t.from_state}
                                 /\ KindOf(t.to_state) \in {"basic", "final"})
                                   => configuration'
                                        = {Parent(t.to_state), t.to_state} ]_vars

\* The last macrostep took a transition that exits its source only and
\* enters the target below an ancestor of it.
C16_Witness ==
    /\ lastCall = "execute"
    /\ TookTransition(lastSteps)
    /\ Len(lastSteps[1].exited_states) = 1
    /\ Len(lastSteps[1].entered_states) = 2
    /\ Parent(lastSteps[1].entered_states[1]) # None

\* What the claimed order makes of a Step applied to the configuration pre:
\* the exit actions and the captures see pre, the action of the transition
\* and the entry actions see pre without the exited states.
ClaimedOrder(step, pre) ==
    [i \in DOMAIN ExitActions(step) |->
        Did("exit", ExitActions(step)[i][2], pre)]
    \o [i \in DOMAIN HistoryChildrenOf(step.exited_states) |->
        Did("capture", HistoryChildrenOf(step.exited_states)[i], pre)]
    \o [i \in DOMAIN TransitionAction(step) |->
        Did("action", step.transition, pre \ Range(step.exited_states))]
    \o [i \in DOMAIN EntryActions(step) |->
        Did("entry", EntryActions(step)[i][2], pre \ Range(step.exited_states))]

\* What a log holds between the Step begun at place p and the next Step.
DoneIn(log, p) ==
    LET later == {q \in Places(log, "step") : q > p}
        last == IF later = {} THEN Len(log)
                ELSE (CHOOSE q \in later : \A o \in later : q <= o) - 1
    IN  SubSeq(log, p + 1, last)

\* Whether two sequences of log entries are the same.
SameEntries(done, claimed) ==
    /\ Len(done) = Len(claimed)
    /\ \A i \in DOMAIN done :
          /\ done[i].op = claimed[i].op
          /\ done[i].conf = claimed[i].conf
          /\ done[i].arg = claimed[i].arg

\* C17 -- Step Executor ordering: every Step a call applied ran its exit
\* actions in exit order, then captured the memory of the history children
\* of the exited compound states from the Configuration not yet changed,
\* then removed the exited states, then ran the action of the transition,
\* then the entry actions in entry order, and then added the entered states.
C17_ExecutorOrder ==
    [][ (lastCall' \in {"start", "execute"} /\ lastError' = "none")
        => \A p \in Places(lastLog', "step") :
              SameEntries(DoneIn(lastLog', p),
                          ClaimedOrder(lastLog'[p].arg, lastLog'[p].conf)) ]_vars

\* C18 -- After a completed start() or execute(), every active orthogonal
\* state has all its children active, also when a transition entered it on
\* its way to a state inside one of its regions.
C18_OrthogonalComplete ==
    (lastCall \in {"start", "execute"} /\ lastError = "none")
        => \A s \in configuration :
              KindOf(s) = "orthogonal" => Range(Children(s)) \subseteq configuration

\* C19 -- After a completed start() or execute(), every active compound
\* state has exactly one active child, so that the checks of the history
\* capture hold whenever a compound state with a history child is exited.
C19_OneActiveChild ==
    (lastCall \in {"start", "execute"} /\ lastError = "none")
        => \A s \in configuration :
              KindOf(s) = "compound"
                 => Cardinality(Range(Children(s)) \cap configuration) = 1

\* C20 -- Stabilization terminates: no start() or execute() is a call whose
\* stabilization loop goes on without end.
C20_StabilizationTerminates ==
    lastCall \in {"start", "execute"} => lastError # "diverge"


====
